---- MODULE Spec2Model ----
(***************************************************************************)
(* A model of pve-ct-to-vm-img (src/src/main.rs): main() wraps a raw       *)
(* filesystem image in a GPT disk image, optionally carving out and        *)
(* formatting an EFI System Partition in the prepended padding.            *)
(*                                                                         *)
(* main() is sequential; pc is its position.  The u64 quantities of the    *)
(* program are kept at full width: a number is a little-endian sequence of *)
(* NLimbs limbs in base 1024, wide enough to hold the exact (unwrapped)    *)
(* result of every operation, and the program's u64 value is that result   *)
(* modulo 2^64.  An overflowing u64 operation panics in a build with       *)
(* overflow checks (debug) and wraps otherwise (release); build is chosen  *)
(* in Init and both outcomes are explored.                                 *)
(***************************************************************************)
EXTENDS Integers, Sequences, FiniteSets, TLC

\* ------------------------------------------------------------------------
\* Wide naturals
\* ------------------------------------------------------------------------

\* The factor of `* 1024 * 1024` (main.rs:73); also the base of the limbs.
Base == 1024

\* Limbs of a wide natural: 9 * 10 = 90 bits, enough for pad_mib * 2^20.
NLimbs == 9

Limbs == 1..NLimbs

\* 2^e for 0 <= e < 31
RECURSIVE Pow2Int(_)
Pow2Int(e) == IF e = 0 THEN 1 ELSE 2 * Pow2Int(e - 1)

RECURSIVE BasePow(_)
BasePow(i) == IF i = 0 THEN 1 ELSE Base * BasePow(i - 1)

\* The wide natural of a small integer 0 <= n < 2^31
Big(n) == [i \in Limbs |-> IF i <= 3 THEN (n \div BasePow(i - 1)) % Base
                           ELSE IF i = 4 THEN n \div BasePow(3) ELSE 0]

\* The wide natural 2^e
Pow2(e) == [i \in Limbs |-> IF i = (e \div 10) + 1 THEN Pow2Int(e % 10) ELSE 0]

Zero == Big(0)

One == Big(1)

\* Each operation first takes the values of its operands (a bound variable
\* holds a value), then works limb by limb.

\* a + b
AddLimbs(a, b) ==
    LET c[i \in 0..NLimbs] ==
            IF i = 0 THEN 0 ELSE (a[i] + b[i] + c[i - 1]) \div Base
    IN  [i \in Limbs |-> (a[i] + b[i] + c[i - 1]) % Base]

AddB(x, y) == CHOOSE r \in {AddLimbs(a, b) : a \in {x}, b \in {y}} : TRUE

\* a - b, for a >= b
SubLimbs(a, b) ==
    LET w[i \in 0..NLimbs] ==
            IF i = 0 THEN 0
            ELSE IF a[i] - b[i] - w[i - 1] < 0 THEN 1 ELSE 0
    IN  [i \in Limbs |-> (a[i] - b[i] - w[i - 1] + Base) % Base]

SubB(x, y) == CHOOSE r \in {SubLimbs(a, b) : a \in {x}, b \in {y}} : TRUE

\* a * m, for a small integer 0 <= m <= 2^20
MulLimbs(a, m) ==
    LET c[i \in 0..NLimbs] ==
            IF i = 0 THEN 0 ELSE (a[i] * m + c[i - 1]) \div Base
    IN  [i \in Limbs |-> (a[i] * m + c[i - 1]) % Base]

MulS(x, m) == CHOOSE r \in {MulLimbs(a, m) : a \in {x}} : TRUE

\* a \div d and a % d, for a small integer 0 < d <= 2^20
DivLimbs(a, d) ==
    LET r[i \in 1..(NLimbs + 1)] ==
            IF i = NLimbs + 1 THEN 0 ELSE (r[i + 1] * Base + a[i]) % d
    IN  [i \in Limbs |-> (r[i + 1] * Base + a[i]) \div d]

DivS(x, d) == CHOOSE r \in {DivLimbs(a, d) : a \in {x}} : TRUE

ModLimbs(a, d) ==
    LET r[i \in 1..(NLimbs + 1)] ==
            IF i = NLimbs + 1 THEN 0 ELSE (r[i + 1] * Base + a[i]) % d
    IN  r[1]

ModS(x, d) == CHOOSE r \in {ModLimbs(a, d) : a \in {x}} : TRUE

\* -1, 0, 1 as a < b, a = b, a > b
CmpLimbs(a, b) ==
    LET c[i \in 0..NLimbs] ==
            IF i = 0 THEN 0
            ELSE IF a[i] < b[i] THEN -1
            ELSE IF a[i] > b[i] THEN 1
            ELSE c[i - 1]
    IN  c[NLimbs]

CmpB(x, y) == CHOOSE r \in {CmpLimbs(a, b) : a \in {x}, b \in {y}} : TRUE

LtB(a, b) == CmpB(a, b) < 0

LeB(a, b) == CmpB(a, b) <= 0

MinB(x, y) == CHOOSE r \in {IF LeB(a, b) THEN a ELSE b : a \in {x}, b \in {y}} : TRUE

\* ceil(a / d)
CeilDivS(x, d) ==
    CHOOSE r \in {IF ModS(a, d) = 0 THEN DivS(a, d) ELSE AddB(DivS(a, d), One)
                    : a \in {x}} : TRUE

\* Number of significant bits of a (0 for 0)
BitLenLimbs(a) ==
    IF \A i \in Limbs : a[i] = 0 THEN 0
    ELSE CHOOSE n \in 1..(10 * NLimbs) :
            /\ a[((n - 1) \div 10) + 1] >= Pow2Int((n - 1) % 10)
            /\ a[((n - 1) \div 10) + 1] < 2 * Pow2Int((n - 1) % 10)
            /\ \A j \in Limbs : j > ((n - 1) \div 10) + 1 => a[j] = 0

BitLen(x) == CHOOSE r \in {BitLenLimbs(a) : a \in {x}} : TRUE

\* ------------------------------------------------------------------------
\* u64 and f64
\* ------------------------------------------------------------------------

\* 2^64: one past u64::MAX
U64Modulus == Pow2(64)

\* i64::MAX + 1: the largest length a file can be given is one less
I64Modulus == Pow2(63)

\* a value that does not fit in u64
Overflows(a) == ~LtB(a, U64Modulus)

\* a modulo 2^64
Wrap64(x) ==
    CHOOSE r \in {[i \in Limbs |-> IF i <= 6 THEN a[i]
                                   ELSE IF i = 7 THEN a[i] % 16 ELSE 0]
                    : a \in {x}} : TRUE

\* a - b in u64, a and b below 2^64: the exact difference when a >= b, else
\* the wrapped one (a + 2^64 - b)
WrapSub64(x, y) ==
    CHOOSE r \in {IF LeB(b, a) THEN SubB(a, b) ELSE SubB(AddB(a, U64Modulus), b)
                    : a \in {x}, b \in {y}} : TRUE

\* `n as f64` for a u64 n: the nearest value with a 53-bit significand,
\* ties to the even significand
F64Mantissa == 53

Rounded(n, s) ==
    IF DivS(n, Pow2Int(s))[1] % 2 = 1 /\ ModS(n, Pow2Int(s)) = Pow2Int(s - 1)
    THEN MulS(AddB(DivS(n, Pow2Int(s)), One), Pow2Int(s))
    ELSE IF ModS(n, Pow2Int(s)) > Pow2Int(s - 1)
    THEN MulS(AddB(DivS(n, Pow2Int(s)), One), Pow2Int(s))
    ELSE MulS(DivS(n, Pow2Int(s)), Pow2Int(s))

AsF64(x) ==
    CHOOSE r \in {IF s <= 0 THEN n ELSE Rounded(n, s)
                    : n \in {x}, s \in {BitLen(x) - F64Mantissa}} : TRUE

\* ------------------------------------------------------------------------
\* Program constants
\* ------------------------------------------------------------------------

PART_NAME_ESP == "efiesp"

PART_NAME_LINUX == "linux"

PART_UUID_ESP == "dd72ae4a-b812-4f7c-b59f-2bc5395d3aab"

PART_UUID_LINUX == "1f64a68b-eb12-443b-a55e-5aad64c3b432"

\* partition_types::EFI and partition_types::LINUX_FS
TYPE_EFI == "EFI"

TYPE_LINUX_FS == "LINUX_FS"

\* let mut buffer = [0u8; 65536]
BufferSize == 65536

\* BufWriter::new: the standard library's default capacity
BufWriterCapacity == 8192

\* u16::MAX, the FAT formatter's sector-size limit
U16Max == 65535

\* "GPT requires 33 LBAs at the end for the backup header (usually 1 header +
\* 32 entries)"; the primary copy takes as many after the protective MBR.
GptLbas == 33

\* A partition GUID the table collaborator draws itself (Uuid::new_v4)
RANDOM_GUID == "collaborator-chosen"

ValidLba(l) == l = 512 \/ l = 4096

\* ------------------------------------------------------------------------
\* Geometry (main.rs:72-84, 129-154), each with its exact value first
\* ------------------------------------------------------------------------

\* args.pad_mib * 1024 * 1024
PadBytesOverflows(pm) ==
    Overflows(MulS(pm, Base)) \/ Overflows(MulS(Wrap64(MulS(pm, Base)), Base))

PadBytes(pm) == Wrap64(MulS(Wrap64(MulS(pm, Base)), Base))

\* pad_bytes / args.lba
PaddingLbas(pb, l) == DivS(pb, l)

\* (input_len as f64 / args.lba as f64).ceil() as u64: the division by a power
\* of two and the ceiling are exact in f64, the conversion of input_len is not
DataLbas(len, l) == Wrap64(CeilDivS(AsF64(len), l))

\* (1024 * 1024) / args.lba
FooterLbas(l) == Big((Base * Base) \div l)

\* padding_lbas + data_lbas + footer_lbas
TotalLbasOverflows(p, d, f) ==
    Overflows(AddB(p, d)) \/ Overflows(AddB(Wrap64(AddB(p, d)), f))

TotalLbas(p, d, f) == Wrap64(AddB(Wrap64(AddB(p, d)), f))

\* total_lbas * args.lba
TotalBytesOverflows(t, l) == Overflows(MulS(t, l))

TotalBytes(t, l) == Wrap64(MulS(t, l))

\* data_start_lba + data_lbas - 1
DataEndOverflows(ds, d) ==
    Overflows(AddB(ds, d)) \/ LtB(Wrap64(AddB(ds, d)), One)

DataEndLba(ds, d) == WrapSub64(Wrap64(AddB(ds, d)), One)

\* (1024 * 1024) / args.lba
EspStartLba(l) == Big((Base * Base) \div l)

\* the ESP made to end on the first data sector
EspEndLba_AtDataStart(ds) == ds

\* data_start_lba - 1
EspEndOverflows(ds) == LtB(ds, One)

EspEndLba(ds) == WrapSub64(ds, One)

\* the comparison with its operands exchanged
EspTooSmall_Swapped(es, ee) == LeB(es, ee)

\* if esp_end_lba <= esp_start_lba { bail!(...) }
EspTooSmall(es, ee) == LeB(ee, es)

\* (esp_end_lba - esp_start_lba + 1) * args.lba, reached with esp_end > esp_start
EspSizeOverflows(es, ee, l) ==
    \/ Overflows(AddB(SubB(ee, es), One))
    \/ Overflows(MulS(Wrap64(AddB(SubB(ee, es), One)), l))

EspSizeBytes(es, ee, l) == Wrap64(MulS(Wrap64(AddB(SubB(ee, es), One)), l))

\* ------------------------------------------------------------------------
\* State
\* ------------------------------------------------------------------------

VARIABLES
    \* Args and the environment of the run
    input_len,      \* input_file.metadata()?.len()
    pad_mib,        \* args.pad_mib
    lba,            \* args.lba
    esp,            \* args.esp
    build,          \* "debug": overflow panics; "release": overflow wraps
    numbering,      \* how the table collaborator numbers the entries it adds
    \* main()'s position and outcome
    pc,
    err,
    warned,         \* the alignment warning was printed
    \* main()'s locals
    pad_bytes, padding_lbas, data_lbas, footer_lbas, total_lbas, total_bytes,
    data_start_lba, data_end_lba, esp_start_lba, esp_end_lba,
    esp_region,     \* None, or <<esp_start_lba, esp_size_bytes>>
    \* the output file
    out_exists,     \* the path names a file
    out_len,        \* its length in bytes
    out_writes,     \* the writes made to it since it was last empty, in order
    out_opened,     \* main() opened it with create + truncate
    out_resized,    \* main() called set_len on it
    \* the partition-table collaborator
    disk_init,      \* an empty table was initialised for the output
    disk_parts,     \* disk.partitions(): index -> entry
    commits,        \* number of disk.write() calls that completed
    table,          \* the entry mapping committed by disk.write()
    \* the ESP formatter
    fmt_calls,      \* number of format_esp_partition calls that returned Ok
    fmt_range,      \* the byte range handed to StreamSlice::new
    \* the copy
    wpos,           \* BufWriter's logical position in the output
    wbuf,           \* bytes held in BufWriter's buffer
    copied          \* the copy loop's counter

vars == <<input_len, pad_mib, lba, esp, build, numbering, pc, err, warned,
          pad_bytes, padding_lbas, data_lbas, footer_lbas, total_lbas,
          total_bytes, data_start_lba, data_end_lba, esp_start_lba,
          esp_end_lba, esp_region, out_exists, out_len, out_writes,
          out_opened, out_resized, disk_init, disk_parts, commits, table,
          fmt_calls, fmt_range, wpos, wbuf, copied>>

args == <<input_len, pad_mib, lba, esp, build, numbering>>

geometry == <<pad_bytes, padding_lbas, data_lbas, footer_lbas, total_lbas,
              total_bytes>>

layout == <<data_start_lba, data_end_lba, esp_start_lba, esp_end_lba,
            esp_region>>

outfile == <<out_exists, out_len, out_writes, out_opened, out_resized>>

gptdisk == <<disk_init, disk_parts, commits, table>>

espfmt == <<fmt_calls, fmt_range>>

copier == <<wpos, wbuf, copied>>

None == <<>>

\* ------------------------------------------------------------------------
\* Bounds of the explored inputs and collaborator choices
\* ------------------------------------------------------------------------

\* pad_mib ranges over 0..MaxSmallPad and a few large values
MaxSmallPad == 3

\* partition indices the collaborator may hand out: 1..MaxPartId
MaxPartId == 3

\* the collaborator places a new entry 0..MaxAutoShift sectors after the
\* lowest free sector
MaxAutoShift == 1

\* input lengths of up to MaxChunks buffers are copied
MaxChunks == 2

PadChoices ==
    {Big(n) : n \in 0..MaxSmallPad}
        \cup {Big(1024), Pow2(42), Pow2(43), Pow2(44), AddB(Pow2(44), Big(2))}

SmallLens ==
    {Zero, One, Big(512), Big(520), Big(4096), Big(BufWriterCapacity + 1)}
        \cup {Big(k * BufferSize) : k \in 1..MaxChunks}
        \cup {Big(k * BufferSize + 1) : k \in 1..MaxChunks}

\* lengths whose copy is not explored: Scenarios A and D of the specification,
\* and lengths around 2^53 and up to the largest file size (i64::MAX)
LargeLens ==
    {Big(10485760), Big(10485761),
     Pow2(53), AddB(Pow2(53), One), AddB(Pow2(53), Big(3)),
     AddB(Pow2(62), One), SubB(Pow2(63), One)}

LbaChoices == {0, 512, 1024, 4096}

\* the length of a file the output path may already name
OldLen == Pow2(62)

InitWith(lens, nums) ==
    /\ input_len \in lens
    /\ numbering \in nums
    /\ pad_mib \in PadChoices
    /\ lba \in LbaChoices
    /\ esp \in BOOLEAN
    /\ build \in {"debug", "release"}
    /\ pc = "open_input"
    /\ err = "none"
    /\ warned = FALSE
    /\ pad_bytes = Zero /\ padding_lbas = Zero /\ data_lbas = Zero
    /\ footer_lbas = Zero /\ total_lbas = Zero /\ total_bytes = Zero
    /\ data_start_lba = Zero /\ data_end_lba = Zero
    /\ esp_start_lba = Zero /\ esp_end_lba = Zero
    /\ esp_region = None
    /\ out_exists \in BOOLEAN
    /\ out_len = IF out_exists THEN OldLen ELSE Zero
    /\ out_writes = IF out_exists
                    THEN <<[who |-> "old", lo |-> Zero, hi |-> OldLen, src |-> Zero]>>
                    ELSE <<>>
    /\ out_opened = FALSE
    /\ out_resized = FALSE
    /\ disk_init = FALSE
    /\ disk_parts = <<>>
    /\ commits = 0
    /\ table = <<>>
    /\ fmt_calls = 0
    /\ fmt_range = None
    /\ wpos = Zero
    /\ wbuf = 0
    /\ copied = Zero

Init == InitWith(SmallLens, {"in_order"})

\* ------------------------------------------------------------------------
\* Outcomes
\* ------------------------------------------------------------------------

\* `?` or bail!: main returns Err
Fail(e) == pc' = "failed" /\ err' = e

\* arithmetic overflow in a build with overflow checks
Panic == pc' = "panic" /\ err' = "overflow"

Terminated == pc \in {"done", "failed", "panic"}

\* ------------------------------------------------------------------------
\* The output file
\* ------------------------------------------------------------------------

Extent(w, a, b, s) == [who |-> w, lo |-> a, hi |-> b, src |-> s]

\* OpenOptions .create(true).truncate(true): the file is emptied
TruncatedLen(len) == Zero

TruncatedWrites(ws) == <<>>

\* set_len(n): bytes from n on are dropped, bytes added read as zero
RECURSIVE Clip(_, _)
Clip(ws, n) ==
    IF ws = <<>> THEN <<>>
    ELSE IF LeB(n, Head(ws).lo) THEN Clip(Tail(ws), n)
    ELSE <<[Head(ws) EXCEPT !.hi = MinB(@, n)]>> \o Clip(Tail(ws), n)

\* a write of [a, b) extends the file when it ends past its length
LenAfterWrite(len, b) == IF LtB(len, b) THEN b ELSE len

\* ------------------------------------------------------------------------
\* The partition-table collaborator (gpt crate), at its interface
\* ------------------------------------------------------------------------

Entry(n, t, first, last, g) ==
    [name |-> n, part_type |-> t, first_lba |-> first, last_lba |-> last,
     part_guid |-> g]

\* sectors of the device the collaborator sees
DeviceLbas == DivS(out_len, lba)

\* the lowest sector after the primary table and every entry
LowestFree(parts) ==
    IF DOMAIN parts = {} THEN Big(GptLbas + 1)
    ELSE LET top == CHOOSE i \in DOMAIN parts :
                        \A j \in DOMAIN parts :
                            LeB(parts[j].last_lba, parts[i].last_lba)
         IN  AddB(parts[top].last_lba, One)

AutoFirst(parts, shift) == AddB(LowestFree(parts), Big(shift))

AutoLast(parts, shift, size) ==
    IF CeilDivS(size, lba) = Zero THEN AutoFirst(parts, shift)
    ELSE SubB(AddB(AutoFirst(parts, shift), CeilDivS(size, lba)), One)

\* add_partition finds room for the entry on the device or returns an error:
\* the entry must end before the backup table at the end of the device
AutoFits(parts, shift, size) ==
    /\ LeB(Big(GptLbas + 1), DeviceLbas)
    /\ LeB(AutoLast(parts, shift, size), SubB(DeviceLbas, Big(GptLbas + 1)))

\* the index of a new entry: the lowest unused one, counting from 1, as the
\* gpt crate numbers them ("in_order"), or any unused one ("any": a
\* collaborator whose mapping may lack an index main() expects)
NewIds(parts) ==
    IF numbering = "in_order"
    THEN {CHOOSE i \in 1..(Cardinality(DOMAIN parts) + 1) :
            i \notin DOMAIN parts /\ \A j \in 1..(i - 1) : j \in DOMAIN parts}
    ELSE (1..MaxPartId) \ DOMAIN parts

\* add_partition(name, size, type, 0, None): an entry of the given size at a
\* place, under an index and with a GUID of the collaborator's choosing
AddPartition(parts, id, shift, n, size, t) ==
    (id :> Entry(n, t, AutoFirst(parts, shift), AutoLast(parts, shift, size),
                 RANDOM_GUID)) @@ parts

\* ------------------------------------------------------------------------
\* main.rs:177-192 and 207-212: the entries are given the planned geometry
\* ------------------------------------------------------------------------

SetEntry(p, first, last, g) ==
    [p EXCEPT !.first_lba = first, !.last_lba = last, !.part_guid = g]

\* the second entry left as the collaborator made it
OverrideEsp_FirstOnly(parts, es, ee, ds, de) ==
    [i \in DOMAIN parts |->
        IF i = 1 THEN SetEntry(parts[i], es, ee, PART_UUID_ESP) ELSE parts[i]]

\* if let Some(p) = partitions.get_mut(&1) {..}; if let Some(p) = ..(&2) {..}
OverrideEsp(parts, es, ee, ds, de) ==
    [i \in DOMAIN parts |->
        IF i = 1 THEN SetEntry(parts[i], es, ee, PART_UUID_ESP)
        ELSE IF i = 2 THEN SetEntry(parts[i], ds, de, PART_UUID_LINUX)
        ELSE parts[i]]

\* partitions.get_mut(&1).context("Partition 1 not found")?
DataEntryFound(parts) == 1 \in DOMAIN parts

OverrideData(parts, ds, de) ==
    [i \in DOMAIN parts |->
        IF i = 1 THEN SetEntry(parts[i], ds, de, PART_UUID_LINUX)
        ELSE parts[i]]

\* the copy made to follow the commit at once
AfterCommit_SkipFormat(region) == "seek"

\* if let Some((esp_start_lba, esp_size_bytes)) = esp_region { format } ; copy
AfterCommit(region) == IF region # None THEN "format_esp" ELSE "seek"

\* ------------------------------------------------------------------------
\* main(), step by step
\* ------------------------------------------------------------------------

\* main.rs:55-58  File::open(&args.input), metadata()?.len()
OpenInput ==
    /\ pc = "open_input"
    /\ \/ pc' = "check_lba" /\ err' = err
       \/ Fail("OpenInput")
    /\ UNCHANGED <<args, warned, geometry, layout, outfile, gptdisk, espfmt,
                   copier>>

\* main.rs:60-70  the block-size check and the alignment warning
CheckLba ==
    /\ pc = "check_lba"
    /\ IF ~ValidLba(lba)
       THEN Fail("InvalidBlockSize") /\ warned' = warned
       ELSE /\ pc' = "geometry"
            /\ err' = err
            /\ warned' = (ModS(input_len, lba) # 0)
    /\ UNCHANGED <<args, geometry, layout, outfile, gptdisk, espfmt, copier>>

\* main.rs:72-84  pad_bytes .. total_bytes
CalcGeometry ==
    /\ pc = "geometry"
    /\ LET pb == PadBytes(pad_mib)
           pl == PaddingLbas(pb, lba)
           dl == DataLbas(input_len, lba)
           fl == FooterLbas(lba)
           tl == TotalLbas(pl, dl, fl)
       IN  IF build = "debug" /\ PadBytesOverflows(pad_mib)
           THEN Panic /\ UNCHANGED geometry
           ELSE IF build = "debug" /\ TotalLbasOverflows(pl, dl, fl)
           THEN /\ Panic
                /\ pad_bytes' = pb /\ padding_lbas' = pl /\ data_lbas' = dl
                /\ footer_lbas' = fl
                /\ UNCHANGED <<total_lbas, total_bytes>>
           ELSE IF build = "debug" /\ TotalBytesOverflows(tl, lba)
           THEN /\ Panic
                /\ pad_bytes' = pb /\ padding_lbas' = pl /\ data_lbas' = dl
                /\ footer_lbas' = fl /\ total_lbas' = tl
                /\ UNCHANGED total_bytes
           ELSE /\ pc' = "create_output"
                /\ err' = err
                /\ pad_bytes' = pb /\ padding_lbas' = pl /\ data_lbas' = dl
                /\ footer_lbas' = fl /\ total_lbas' = tl
                /\ total_bytes' = TotalBytes(tl, lba)
    /\ UNCHANGED <<args, warned, layout, outfile, gptdisk, espfmt, copier>>

\* main.rs:99-105  OpenOptions .read .write .create .truncate .open
CreateOutput ==
    /\ pc = "create_output"
    /\ \/ /\ pc' = "set_len"
          /\ err' = err
          /\ out_exists' = TRUE
          /\ out_opened' = TRUE
          /\ out_len' = TruncatedLen(out_len)
          /\ out_writes' = TruncatedWrites(out_writes)
          /\ UNCHANGED out_resized
       \/ Fail("CreateOutput") /\ UNCHANGED outfile
    /\ UNCHANGED <<args, warned, geometry, layout, gptdisk, espfmt, copier>>

\* main.rs:107-110  output_file.set_len(total_bytes); the length is an i64
\* to the operating system
SetLen ==
    /\ pc = "set_len"
    /\ \/ /\ LtB(total_bytes, I64Modulus)
          /\ pc' = "open_gpt"
          /\ err' = err
          /\ out_len' = total_bytes
          /\ out_writes' = Clip(out_writes, total_bytes)
          /\ out_resized' = TRUE
          /\ UNCHANGED <<out_exists, out_opened>>
       \/ Fail("SetLen") /\ UNCHANGED outfile
    /\ UNCHANGED <<args, warned, geometry, layout, gptdisk, espfmt, copier>>

\* main.rs:112-127  LogicalBlockSize::try_from, GptConfig .open,
\* disk.update_partitions(BTreeMap::new())
OpenGpt ==
    /\ pc = "open_gpt"
    /\ \/ /\ ValidLba(lba)
          /\ pc' = "data_geometry"
          /\ err' = err
          /\ disk_init' = TRUE
          /\ disk_parts' = <<>>
          /\ UNCHANGED <<commits, table>>
       \/ Fail("OpenGpt") /\ UNCHANGED gptdisk
    /\ UNCHANGED <<args, warned, geometry, layout, outfile, espfmt, copier>>

\* main.rs:129-132  data_start_lba, data_end_lba
DataGeometry ==
    /\ pc = "data_geometry"
    /\ data_start_lba' = padding_lbas
    /\ IF build = "debug" /\ DataEndOverflows(padding_lbas, data_lbas)
       THEN Panic /\ UNCHANGED data_end_lba
       ELSE /\ pc' = "esp_layout"
            /\ err' = err
            /\ data_end_lba' = DataEndLba(padding_lbas, data_lbas)
    /\ UNCHANGED <<args, warned, geometry, esp_start_lba, esp_end_lba,
                   esp_region, outfile, gptdisk, espfmt, copier>>

\* main.rs:134-154  the ESP region, or none
EspLayout ==
    /\ pc = "esp_layout"
    /\ IF ~esp
       THEN /\ pc' = "add_linux"
            /\ err' = err
            /\ UNCHANGED <<esp_start_lba, esp_end_lba, esp_region>>
       ELSE LET es == EspStartLba(lba)
                ee == EspEndLba(data_start_lba)
            IN  /\ esp_start_lba' = es
                /\ IF build = "debug" /\ EspEndOverflows(data_start_lba)
                   THEN Panic /\ UNCHANGED <<esp_end_lba, esp_region>>
                   ELSE /\ esp_end_lba' = ee
                        /\ IF EspTooSmall(es, ee)
                           THEN Fail("InsufficientPadding") /\ UNCHANGED esp_region
                           ELSE IF build = "debug" /\ EspSizeOverflows(es, ee, lba)
                           THEN Panic /\ UNCHANGED esp_region
                           ELSE /\ pc' = "add_esp"
                                /\ err' = err
                                /\ esp_region' = <<es, EspSizeBytes(es, ee, lba)>>
    /\ UNCHANGED <<args, warned, geometry, data_start_lba, data_end_lba,
                   outfile, gptdisk, espfmt, copier>>

\* main.rs:159-162  disk.add_partition(PART_NAME_ESP, esp_size_bytes, EFI, ..)
AddEsp ==
    /\ pc = "add_esp"
    /\ \/ \E id \in NewIds(disk_parts), shift \in 0..MaxAutoShift :
            /\ AutoFits(disk_parts, shift, esp_region[2])
            /\ disk_parts' = AddPartition(disk_parts, id, shift, PART_NAME_ESP,
                                          esp_region[2], TYPE_EFI)
            /\ pc' = "add_linux"
            /\ err' = err
       \/ Fail("AddEsp") /\ UNCHANGED disk_parts
    /\ UNCHANGED <<args, warned, geometry, layout, outfile, disk_init, commits,
                   table, espfmt, copier>>

\* main.rs:164-173 and 195-203  disk.add_partition(PART_NAME_LINUX, input_len, ..)
AddLinux ==
    /\ pc = "add_linux"
    /\ \/ \E id \in NewIds(disk_parts), shift \in 0..MaxAutoShift :
            /\ AutoFits(disk_parts, shift, input_len)
            /\ disk_parts' = AddPartition(disk_parts, id, shift, PART_NAME_LINUX,
                                          input_len, TYPE_LINUX_FS)
            /\ pc' = "override"
            /\ err' = err
       \/ Fail("AddLinux") /\ UNCHANGED disk_parts
    /\ UNCHANGED <<args, warned, geometry, layout, outfile, disk_init, commits,
                   table, espfmt, copier>>

\* main.rs:177-192 and 207-215  disk.partitions().clone(), the overrides,
\* disk.update_partitions(partitions)
Override ==
    /\ pc = "override"
    /\ \/ /\ esp
          /\ disk_parts' = OverrideEsp(disk_parts, esp_start_lba, esp_end_lba,
                                       data_start_lba, data_end_lba)
          /\ pc' = "commit"
          /\ err' = err
       \/ /\ ~esp
          /\ IF DataEntryFound(disk_parts)
             THEN /\ disk_parts' = OverrideData(disk_parts, data_start_lba,
                                                data_end_lba)
                  /\ pc' = "commit"
                  /\ err' = err
             ELSE Fail("PartitionNotFound") /\ UNCHANGED disk_parts
       \/ Fail("UpdatePartitions") /\ UNCHANGED disk_parts
    /\ UNCHANGED <<args, warned, geometry, layout, outfile, disk_init, commits,
                   table, espfmt, copier>>

\* main.rs:218-219  disk.write(): the primary table after the first sector and
\* the backup table in the device's last sectors
CommitTable ==
    /\ pc = "commit"
    /\ \/ /\ LeB(Big(2 * GptLbas + 1), DeviceLbas)
          /\ commits' = commits + 1
          /\ table' = disk_parts
          /\ out_writes' = out_writes \o
                <<Extent("gpt", Big(lba), MulS(Big(GptLbas + 1), lba), Zero),
                  Extent("gpt", MulS(SubB(DeviceLbas, Big(GptLbas)), lba),
                         MulS(DeviceLbas, lba), Zero)>>
          /\ pc' = AfterCommit(esp_region)
          /\ err' = err
       \/ Fail("WriteGpt") /\ UNCHANGED <<commits, table, out_writes>>
    /\ UNCHANGED <<args, warned, geometry, layout, out_exists, out_len,
                   out_opened, out_resized, disk_init, disk_parts, espfmt, copier>>

\* main.rs:221-230 and 288-323  format_esp_partition(&args.output,
\* esp_start_lba * args.lba, esp_size_bytes, args.lba): StreamSlice::new(file,
\* start_offset, start_offset + size_bytes), format_volume, flush.  The
\* formatter may write any byte of the slice and none outside it.
FormatStart(region) == Wrap64(MulS(region[1], lba))

FormatEnd(region) == Wrap64(AddB(FormatStart(region), region[2]))

FormatOverflows(region) ==
    \/ Overflows(MulS(region[1], lba))
    \/ Overflows(AddB(FormatStart(region), region[2]))

FormatEsp ==
    /\ pc = "format_esp"
    /\ IF build = "debug" /\ FormatOverflows(esp_region)
       THEN Panic /\ UNCHANGED <<espfmt, out_writes, out_len>>
       ELSE \/ /\ lba <= U16Max
               /\ fmt_range' = <<FormatStart(esp_region), FormatEnd(esp_region)>>
               /\ fmt_calls' = fmt_calls + 1
               /\ out_writes' = Append(out_writes,
                                       Extent("fat", FormatStart(esp_region),
                                              FormatEnd(esp_region), Zero))
               /\ out_len' = LenAfterWrite(out_len, FormatEnd(esp_region))
               /\ pc' = "seek"
               /\ err' = err
            \/ Fail("FormatEsp") /\ UNCHANGED <<espfmt, out_writes, out_len>>
    /\ UNCHANGED <<args, warned, geometry, layout, out_exists, out_opened,
                   out_resized, gptdisk, copier>>

\* main.rs:235-241  BufWriter::new(output_file), seek(Start(data_start_lba * lba))
SeekOut ==
    /\ pc = "seek"
    /\ IF build = "debug" /\ Overflows(MulS(data_start_lba, lba))
       THEN Panic /\ UNCHANGED copier
       ELSE \/ /\ wpos' = Wrap64(MulS(data_start_lba, lba))
               /\ wbuf' = 0
               /\ copied' = Zero
               /\ pc' = "copy"
               /\ err' = err
            \/ Fail("Seek") /\ UNCHANGED copier
    /\ UNCHANGED <<args, warned, geometry, layout, outfile, gptdisk, espfmt>>

\* reader.read(&mut buffer): the bytes left in the input, at most a bufferful
ReadLen(len, done) ==
    IF LeB(Big(BufferSize), SubB(len, done)) THEN BufferSize
    ELSE SubB(len, done)[1] + Base * SubB(len, done)[2]

\* BufWriter::write_all(buf): the buffered bytes are written out first when buf
\* does not fit behind them; buf goes straight to the file when it is as large
\* as the buffer, into the buffer otherwise
FlushedFirst(held, n) ==
    IF held > 0 /\ held + n > BufWriterCapacity
    THEN <<Extent("copy", SubB(wpos, Big(held)), wpos, SubB(copied, Big(held)))>>
    ELSE <<>>

WrittenThrough(n) ==
    IF n >= BufWriterCapacity
    THEN <<Extent("copy", wpos, AddB(wpos, Big(n)), copied)>>
    ELSE <<>>

HeldAfter(held, n) ==
    IF n >= BufWriterCapacity THEN 0
    ELSE IF held + n > BufWriterCapacity THEN n
    ELSE held + n

RECURSIVE LenAfterWrites(_, _)
LenAfterWrites(len, ws) ==
    IF ws = <<>> THEN len
    ELSE LenAfterWrites(LenAfterWrite(len, Head(ws).hi), Tail(ws))

\* main.rs:257-265  one turn of the copy loop
CopyChunk ==
    /\ pc = "copy"
    /\ LET n == ReadLen(input_len, copied)
       IN  \/ /\ n = 0
              /\ pc' = "flush"
              /\ err' = err
              /\ UNCHANGED <<copier, out_writes, out_len>>
           \/ /\ n > 0
              /\ out_writes' = out_writes \o FlushedFirst(wbuf, n) \o WrittenThrough(n)
              /\ out_len' = LenAfterWrites(out_len,
                                FlushedFirst(wbuf, n) \o WrittenThrough(n))
              /\ wbuf' = HeldAfter(wbuf, n)
              /\ wpos' = AddB(wpos, Big(n))
              /\ copied' = AddB(copied, Big(n))
              /\ pc' = "copy"
              /\ err' = err
           \/ Fail("Copy") /\ UNCHANGED <<copier, out_writes, out_len>>
    /\ UNCHANGED <<args, warned, geometry, layout, out_exists, out_opened,
                   out_resized, gptdisk, espfmt>>

\* main.rs:267-268  writer.flush()
Flushed(held) ==
    IF held > 0
    THEN <<Extent("copy", SubB(wpos, Big(held)), wpos, SubB(copied, Big(held)))>>
    ELSE <<>>

FinishCopy ==
    /\ pc = "flush"
    /\ \/ /\ out_writes' = out_writes \o Flushed(wbuf)
          /\ out_len' = LenAfterWrites(out_len, Flushed(wbuf))
          /\ wbuf' = 0
          /\ pc' = "done"
          /\ err' = err
          /\ UNCHANGED <<wpos, copied>>
       \/ Fail("Flush") /\ UNCHANGED <<copier, out_writes, out_len>>
    /\ UNCHANGED <<args, warned, geometry, layout, out_exists, out_opened,
                   out_resized, gptdisk, espfmt>>

\* ------------------------------------------------------------------------
\* Specifications
\* ------------------------------------------------------------------------

Next ==
    \/ OpenInput
    \/ CheckLba
    \/ CalcGeometry
    \/ CreateOutput
    \/ SetLen
    \/ OpenGpt
    \/ DataGeometry
    \/ EspLayout
    \/ AddEsp
    \/ AddLinux
    \/ Override
    \/ CommitTable
    \/ FormatEsp
    \/ SeekOut
    \/ CopyChunk
    \/ FinishCopy

\* A whole run of main(), over inputs short enough to copy
Spec == Init /\ [][Next]_vars

\* The planning and sizing steps of main() (main.rs:55-110), over input lengths
\* up to the largest file size
GeomInit == InitWith(SmallLens \cup LargeLens, {"in_order"})

GeomNext ==
    \/ OpenInput
    \/ CheckLba
    \/ CalcGeometry
    \/ CreateOutput
    \/ SetLen

GeomSpec == GeomInit /\ [][GeomNext]_vars

\* A whole run of main() with a table collaborator free to number the entries
\* it adds as it likes
AnyIndexInit == InitWith(SmallLens, {"any"})

AnyIndexSpec == AnyIndexInit /\ [][Next]_vars

\* ------------------------------------------------------------------------
\* Vocabulary of the properties
\* ------------------------------------------------------------------------

\* main() has read the entry mapping back and gone on
PastOverride == pc \in {"commit", "format_esp", "seek", "copy", "flush", "done"}

\* main() has gone on past the ESP logic of main.rs:134-154
PastEspLayout == pc \in {"add_esp", "add_linux", "override"} \/ PastOverride

Wrote(w) == \E i \in DOMAIN out_writes : out_writes[i].who = w

\* the last write to cover byte x, 0 when none has: a byte no write covers
\* reads as zero
LastWrite(x) ==
    LET cover == {i \in DOMAIN out_writes :
                    LeB(out_writes[i].lo, x) /\ LtB(x, out_writes[i].hi)}
    IN  IF cover = {} THEN 0 ELSE CHOOSE i \in cover : \A j \in cover : j <= i

\* the offsets of [a, b) at which the last write to cover a byte can change
Breakpoints(a, b) ==
    {x \in {a} \cup {out_writes[i].lo : i \in DOMAIN out_writes}
               \cup {out_writes[i].hi : i \in DOMAIN out_writes} :
        LeB(a, x) /\ LtB(x, b)}

\* the exact quantities of the plan, with no wrap-around and no rounding
ExactPadBytes == MulS(MulS(pad_mib, Base), Base)

ExactPaddingLbas == DivS(ExactPadBytes, lba)

ExactDataLbas == CeilDivS(input_len, lba)

\* the sector range of the partition-table copy at the front of the device:
\* sectors 0..GptLbas (protective MBR, header, entry array)
FirstUsableLba == Big(GptLbas + 1)

\* ------------------------------------------------------------------------
\* Properties
\* ------------------------------------------------------------------------

\* C1: a run that ends with the invalid-block-size error or with the
\* insufficient-padding error has not created, truncated or resized the output
\* file, and has initialised no partition table for it.
C1_PreflightBeforeMutation ==
    err \in {"InvalidBlockSize", "InsufficientPadding"} =>
        ~out_opened /\ ~out_resized /\ ~disk_init

\* an ESP is requested and espStart >= espEnd, with espEnd = paddingSectors - 1
\* in the program's u64 arithmetic
C2_Requested ==
    /\ esp
    /\ ValidLba(lba)
    /\ LeB(WrapSub64(DivS(Wrap64(MulS(Wrap64(MulS(pad_mib, Base)), Base)), lba), One),
           Big((Base * Base) \div lba))

\* C2: when an ESP is requested and espStart >= espEnd, the run never gets past
\* the ESP logic: no entry is added, nothing is committed, formatted or copied,
\* no ESP region is planned, it does not complete, and once it is through the
\* steps before the ESP logic it ends with the insufficient-padding error.
C2_InsufficientPaddingFails ==
    C2_Requested =>
        /\ ~PastEspLayout
        /\ esp_region = None
        /\ DOMAIN disk_parts = {}
        /\ commits = 0 /\ table = <<>>
        /\ fmt_calls = 0 /\ ~Wrote("fat")
        /\ ~Wrote("copy")
        /\ (Terminated /\ disk_init => pc = "failed" /\ err = "InsufficientPadding")

\* a run with one block of padding only, refused at the ESP check
C2_Witness ==
    /\ C2_Requested
    /\ pad_mib = One
    /\ lba = 4096
    /\ pc = "failed"
    /\ err = "InsufficientPadding"

\* the first byte of the data region and the end of the image copied there
DataStartByte == MulS(padding_lbas, lba)

DataEndByte == AddB(DataStartByte, input_len)

\* the end of the last data sector
DataSectorsEndByte == AddB(DataStartByte, MulS(ExactDataLbas, lba))

\* C3: after a run that completes, every output byte at paddingSectors *
\* logicalBlockSize + i, i < inputLengthBytes, is input byte i, and the rest of
\* the last data sector is zero.
C3_RoundTrip ==
    pc = "done" =>
        /\ \A x \in Breakpoints(DataStartByte, DataEndByte) :
              /\ LastWrite(x) # 0
              /\ out_writes[LastWrite(x)].who = "copy"
              /\ AddB(out_writes[LastWrite(x)].src,
                      SubB(x, out_writes[LastWrite(x)].lo)) = SubB(x, DataStartByte)
        /\ \A x \in Breakpoints(DataEndByte, DataSectorsEndByte) :
              LastWrite(x) = 0 /\ LtB(x, out_len)

StageOf(w) == IF w = "gpt" THEN 1 ELSE IF w = "fat" THEN 2 ELSE IF w = "copy" THEN 3 ELSE 0

\* C4: the table is committed at most once and before the ESP formatter writes;
\* the formatter runs at most once, only when an ESP was requested, and has
\* returned before the first copied byte is written; the writes to the output
\* are in the order table, ESP, data; a run that completes has committed the
\* table once, formatted the ESP once if and only if it was requested, and
\* copied the whole input.
C4_StageOrder ==
    /\ commits <= 1
    /\ fmt_calls <= 1
    /\ (fmt_calls = 1 => esp)
    /\ \A i, j \in DOMAIN out_writes :
          i < j => StageOf(out_writes[i].who) <= StageOf(out_writes[j].who)
    /\ (Wrote("gpt") => commits = 1)
    /\ (Wrote("fat") => commits = 1 /\ fmt_calls = 1)
    /\ (pc \in {"seek", "copy", "flush", "done"} \/ Wrote("copy") =>
            commits = 1 /\ fmt_calls = (IF esp THEN 1 ELSE 0))
    /\ (pc = "done" =>
            /\ Wrote("gpt")
            /\ (esp <=> Wrote("fat"))
            /\ copied = input_len /\ wbuf = 0
            /\ (input_len # Zero => Wrote("copy")))

\* a completed run with an ESP: all three stages have written
C4_Witness ==
    /\ pc = "done"
    /\ esp
    /\ Wrote("gpt") /\ Wrote("fat") /\ Wrote("copy")
    /\ Len(out_writes) >= 4

\* C5: in a completed run with an ESP, the ESP region starts at sector
\* 1 MiB / logicalBlockSize, ends one sector before the data region,
\* espStart < espEnd < dataStart, it shares no sector with the data region, the
\* formatter was handed exactly the bytes [espStart * lbs, (espEnd + 1) * lbs),
\* none of them in the data region, and the data region starts and is as long
\* as the plan makes it with no regard to the ESP.
C5_EspRegion ==
    pc = "done" /\ esp =>
        /\ esp_start_lba = Big((Base * Base) \div lba)
        /\ AddB(esp_end_lba, One) = data_start_lba
        /\ LtB(esp_start_lba, esp_end_lba)
        /\ LtB(esp_end_lba, data_start_lba)
        /\ LtB(esp_end_lba, padding_lbas)
        /\ fmt_range = <<MulS(esp_start_lba, lba), MulS(AddB(esp_end_lba, One), lba)>>
        /\ LeB(fmt_range[2], MulS(data_start_lba, lba))
        /\ \A i \in DOMAIN out_writes :
              out_writes[i].who = "fat" => LeB(out_writes[i].hi, DataStartByte)
        /\ data_start_lba = DivS(Wrap64(MulS(Wrap64(MulS(pad_mib, Base)), Base)), lba)
        /\ AddB(data_end_lba, One) = AddB(data_start_lba, data_lbas)
        /\ \A i \in DOMAIN out_writes :
              out_writes[i].who = "copy" => LeB(DataStartByte, out_writes[i].lo)

\* a completed run with the least padding that holds an ESP
C5_Witness ==
    /\ pc = "done"
    /\ esp
    /\ pad_mib = Big(2)
    /\ fmt_calls = 1
    /\ input_len # Zero

\* the entries the plan dictates, with the program's own (u64) bounds
PlannedEspEntry ==
    Entry(PART_NAME_ESP, TYPE_EFI, Big((Base * Base) \div lba),
          WrapSub64(padding_lbas, One), PART_UUID_ESP)

PlannedDataEntry ==
    Entry(PART_NAME_LINUX, TYPE_LINUX_FS, padding_lbas,
          WrapSub64(Wrap64(AddB(padding_lbas, data_lbas)), One), PART_UUID_LINUX)

\* C6: whatever the collaborator assigned in add_partition, the committed
\* table is exactly: with an ESP, entry 1 the planned ESP entry and entry 2 the
\* planned data entry; without, entry 1 the planned data entry.  No entry keeps
\* a bound or a GUID of the collaborator's.
C6_CommittedTable ==
    commits >= 1 =>
        IF esp
        THEN /\ DOMAIN table = {1, 2}
             /\ table[1] = PlannedEspEntry
             /\ table[2] = PlannedDataEntry
        ELSE /\ DOMAIN table = {1}
             /\ table[1] = PlannedDataEntry

\* a committed ESP table whose entries the collaborator had placed elsewhere
C6_Witness ==
    /\ commits = 1
    /\ esp
    /\ pc = "done"
    /\ table[1].first_lba = esp_start_lba
    /\ table[1].first_lba # Big(GptLbas + 1)
    /\ table[2].part_guid = PART_UUID_LINUX
    /\ RANDOM_GUID # PART_UUID_LINUX

\* C7: once the length of the output is set, footerSectors = 1 MiB / lbs,
\* totalSectors = paddingSectors + dataSectors + footerSectors, and the length
\* is totalSectors * lbs, with paddingSectors = padMiB * 1 MiB / lbs and no
\* wrap-around anywhere; 10485760 bytes with 1024 MiB of padding at 512 give
\* 2097152, 20480, 2048 and 2119680 sectors.
C7_ExactLength ==
    out_resized =>
        /\ footer_lbas = Big((Base * Base) \div lba)
        /\ padding_lbas = ExactPaddingLbas
        /\ total_lbas = AddB(AddB(ExactPaddingLbas, data_lbas), footer_lbas)
        /\ out_len = MulS(AddB(AddB(ExactPaddingLbas, data_lbas), footer_lbas), lba)
        /\ (input_len = Big(10485760) /\ pad_mib = Big(1024) /\ lba = 512 =>
                /\ padding_lbas = Big(2097152)
                /\ data_lbas = Big(20480)
                /\ footer_lbas = Big(2048)
                /\ total_lbas = Big(2119680))

\* C8: once the geometry is computed, dataSectors is the integer ceiling of
\* inputLengthBytes / logicalBlockSize.
C8_DataSectorsCeil ==
    pc = "create_output" => data_lbas = ExactDataLbas

\* the mapping read back at main.rs:178/208 lacks an index main() expects
LacksExpectedIndex ==
    IF esp THEN ~({1, 2} \subseteq DOMAIN disk_parts) ELSE 1 \notin DOMAIN disk_parts

\* C9: when the mapping read back lacks an expected index, main() does not go
\* on: nothing is committed, formatted or copied.
C9_MissingIndexFatal ==
    LacksExpectedIndex =>
        /\ ~PastOverride
        /\ commits = 0
        /\ fmt_calls = 0
        /\ ~Wrote("copy")

\* C10: in a run that completes, each committed entry is a non-empty range
\* after the primary table at the front and before the footer sectors, and no
\* copied byte lands on the primary table.
C10_EntriesClearOfTable ==
    pc = "done" =>
        /\ \A i \in DOMAIN table :
              /\ LeB(table[i].first_lba, table[i].last_lba)
              /\ LeB(FirstUsableLba, table[i].first_lba)
              /\ LtB(table[i].last_lba, AddB(padding_lbas, data_lbas))
        /\ \A i \in DOMAIN out_writes :
              out_writes[i].who = "copy" =>
                  LeB(MulS(FirstUsableLba, lba), out_writes[i].lo)

====
